---- MODULE Spec2Model ----
(***************************************************************************)
(* A model of the todo-app front end: the task entities (RestTaskModel),   *)
(* the per-task view/edit component (TaskComponent), the controller        *)
(* functions (init, addTask, removeTask, createTaskComponent) and the      *)
(* remote task store they talk to through RestClient.                      *)
(*                                                                         *)
(* JavaScript runs every handler to its next `await`; each action below is *)
(* one such run: a user event handler up to the point where it suspends on *)
(* a remote call, or the continuation that runs when the call settles.     *)
(***************************************************************************)
EXTENDS Integers, Sequences, FiniteSets, TLC

(***************************************************************************)
(* Bounds of the model.                                                    *)
(***************************************************************************)
\* remote calls issued in one behaviour (the GET of init() included)
MaxCalls == 3
\* tasks the store ever holds: those it has when the page loads and those
\* it creates
MaxTasks == 1

(***************************************************************************)
(* Text.  String.prototype.trim and its one-sided variants.                *)
(***************************************************************************)
IsSpace(c) == c = " "

RECURSIVE trimLeft(_)
trimLeft(s) ==
  IF Len(s) > 0 /\ IsSpace(SubSeq(s, 1, 1)) THEN trimLeft(SubSeq(s, 2, Len(s))) ELSE s

RECURSIVE trimRight(_)
trimRight(s) ==
  IF Len(s) > 0 /\ IsSpace(SubSeq(s, Len(s), Len(s)))
  THEN trimRight(SubSeq(s, 1, Len(s) - 1)) ELSE s

trim(s) == trimRight(trimLeft(s))

\* what an input element may hold when a handler reads its value
Inputs == { "", "  ", " b " }

\* the description of the tasks the store holds before the page loads
StoredDesc == "m"

(***************************************************************************)
(* Values of the entity fields.                                            *)
(***************************************************************************)
\* `undefined`: the id of an entity that was never persisted
NoId == 0

\* the reading of the browser's clock in `new Date()`, and of the store's
ClientNow == 1
StoreNow == ClientNow + 1

\* Array.prototype.splice(i, 1)
splice(ts, i) == SubSeq(ts, 1, i - 1) \o SubSeq(ts, i + 1, Len(ts))

\* new Date(): a Date object
NewDate == [type |-> "Date", ms |-> ClientNow]
\* JSON.stringify of a Date, and the store's timestamps: an ISO-8601 string
IsoString(ms) == [type |-> "iso", ms |-> ms]
\* Date.parse: the milliseconds of an ISO string, as a number (NaN otherwise)
DateParse(s) == IF s.type = "iso" THEN [type |-> "number", ms |-> s.ms]
                ELSE [type |-> "NaN", ms |-> 0]

\* TaskModel's constructor
NewModel(id, description) ==
  [id |-> id, description |-> description, timestamp |-> NewDate]

\* RestTaskModel.toDto, as JSON.stringify puts it on the wire
toDto(m) ==
  [id |-> m.id, description |-> m.description,
   timestamp |-> IF m.timestamp.type = "Date" THEN IsoString(m.timestamp.ms)
                 ELSE m.timestamp]

(***************************************************************************)
(* RestClient: the classification of a completed response.                 *)
(***************************************************************************)
\* getResponseHeader returns null when the response has no such header
NullHeader == "(null)"
NoData == [none |-> TRUE]

\* String.prototype.substr(0, n)
substr0(s, n) == SubSeq(s, 1, IF n < Len(s) THEN n ELSE Len(s))

\* the loop of endRemoveAndTrim, on a string already trimmed on the right
RECURSIVE endRemoveLoop(_, _)
endRemoveLoop(str, char) ==
  IF str # "" /\ SubSeq(str, Len(str), Len(str)) = char
  THEN endRemoveLoop(trimRight(SubSeq(str, 1, Len(str) - 1)), char)
  ELSE str

\* endRemoveAndTrim(str, char)
endRemoveAndTrim(str, char) ==
  IF str # "" THEN endRemoveLoop(trimRight(str), char) ELSE str

\* the loop of startRemoveAndTrim, on a string already trimmed on the left
RECURSIVE startRemoveLoop(_, _)
startRemoveLoop(str, char) ==
  IF str # "" /\ SubSeq(str, 1, 1) = char
  THEN startRemoveLoop(trimLeft(SubSeq(str, 2, Len(str))), char)
  ELSE str

\* startRemoveAndTrim(str, char)
startRemoveAndTrim(str, char) ==
  IF str # "" THEN startRemoveLoop(trimLeft(str), char) ELSE str

\* encodeURIComponent, on the characters the model's keys and values use:
\* letters and digits stay, the others are percent-encoded
encodeChar(c) ==
  CASE c = " " -> "%20"
    [] c = "/" -> "%2F"
    [] c = "&" -> "%26"
    [] c = "=" -> "%3D"
    [] c = "?" -> "%3F"
    [] OTHER -> c

RECURSIVE encodeURIComponent(_)
encodeURIComponent(str) ==
  IF str = "" THEN ""
  ELSE encodeChar(SubSeq(str, 1, 1)) \o encodeURIComponent(SubSeq(str, 2, Len(str)))

\* Array.prototype.join(sep) on a sequence of strings
RECURSIVE join(_, _)
join(parts, sep) ==
  IF parts = <<>> THEN ""
  ELSE IF Len(parts) = 1 THEN parts[1]
  ELSE parts[1] \o sep \o join(Tail(parts), sep)

\* mkUrl(baseUrl, path, queryParams); queryParams is the sequence of the
\* {key, value} of the object in the order of Object.keys, empty when the
\* argument is absent; an absent baseUrl and an absent value are ""
mkUrl(baseUrl, path, queryParams) ==
  LET bu == endRemoveAndTrim(trim(baseUrl), "/")
      p == startRemoveAndTrim(trim(path), "/")
      joined == join(<<bu, p>>, "/")
      params == [j \in 1..Len(queryParams) |->
                   IF queryParams[j].val # ""
                   THEN encodeURIComponent(queryParams[j].key) \o "=" \o
                        encodeURIComponent(queryParams[j].val)
                   ELSE encodeURIComponent(queryParams[j].key)]
  IN IF Len(params) > 0 THEN joined \o "?" \o join(params, "&") ELSE joined

\* handleJsonResponse for a request whose readyState is DONE: what it does
\* with the promise.  "throw" is an exception out of the onreadystatechange
\* handler, after which neither resolve nor reject is ever called.
handleJsonResponse(req) ==
  IF req.status = 200 \/ req.status = 201
  THEN IF req.header = NullHeader
       THEN [kind |-> "throw", error |-> "TypeError"]
       ELSE IF \/ substr0(req.header, 16) = "application/json"
               \/ substr0(req.header, 9) = "text/json"
            THEN IF req.parses
                 THEN [kind |-> "resolve", value |-> req.data]
                 ELSE [kind |-> "throw", error |-> "SyntaxError"]
            ELSE [kind |-> "reject", message |-> "Not a JSON response",
                  status |-> req.status, field |-> "response"]
  ELSE IF req.header = "application/json" \/ req.header = "text/json"
       THEN IF req.parses
            THEN [kind |-> "reject", message |-> "Operation failed",
                  status |-> req.status, field |-> "json"]
            ELSE [kind |-> "throw", error |-> "SyntaxError"]
       ELSE [kind |-> "reject", message |-> "Operation failed",
             status |-> req.status, field |-> "response"]

\* the answers the store gives to a request in this model: (status,
\* Content-type, whether the body parses as JSON).  A creation is answered 201
\* and the other requests 200, with a JSON body.  An update or a removal
\* needs no body: this store may answer an accepted update with plain text
\* and an accepted removal with no body and no Content-type at all.
StoreAnswers(method) ==
  LET created == [status |-> 201, header |-> "application/json; charset=utf-8",
                  parses |-> TRUE]
      ok == [status |-> 200, header |-> "application/json", parses |-> TRUE]
      plain == [status |-> 200, header |-> "text/plain", parses |-> FALSE]
      bare == [status |-> 200, header |-> NullHeader, parses |-> FALSE]
      missing == [status |-> 404, header |-> "application/json", parses |-> TRUE]
      failed == [status |-> 500, header |-> "text/html", parses |-> FALSE]
  IN CASE method = "GET" -> {ok, failed}
       [] method = "POST" -> {created, failed}
       [] method = "PUT" -> {ok, plain, failed}
       [] method = "DELETE" -> {ok, bare, missing}

IsSuccess(status) == status = 200 \/ status = 201

(***************************************************************************)
(* The state.                                                              *)
(***************************************************************************)
VARIABLES
  store,    \* the remote task store: its rows by id, and its next id
  models,   \* the RestTaskModel objects, in allocation order
  comps,    \* the TaskComponent objects, by the handle of their model
  tasks,    \* the registry: the `tasks` array of {model, component}
  calls,    \* the remote calls issued so far, in issue order
  emitter,  \* an EventEmitter on its own, and what its last operation did
  request,  \* one request of a RestClient on its own, and its promise
  url       \* one call of mkUrl: its arguments and the URL it returned

vars == <<store, models, comps, tasks, calls, emitter, request, url>>

(***************************************************************************)
(* sequencer, Handler and EventEmitter.                                    *)
(***************************************************************************)
\* sequencer(): the counter a fresh sequence function closes over
sequencer == 1
\* new Handler(event, element, callback): registered at construction
NewHandler(button, callback) ==
  [event |-> "click", button |-> button, callback |-> callback, registered |-> TRUE]

\* Handler.unregister
unregister(h) == [h EXCEPT !.registered = FALSE]

\* the sequence function as it would be if it never advanced its counter
seqNext_stuck(i) == [n |-> i, i |-> i]

\* one call of the sequence function: the number returned and the new counter
seqNext(i) == [n |-> i, i |-> i + 1]

\* EventEmitter.on
on(c, event, callback) ==
  LET s == seqNext(c.seq)
  IN [c EXCEPT !.subscribers = Append(@, [id |-> s.n, event |-> event,
                                          callback |-> callback]),
               !.seq = s.i]

\* EventEmitter.emit: the callbacks it invokes, in order
emit(c, event) ==
  LET matching == SelectSeq(c.subscribers, LAMBDA s : s.event = event)
  IN [j \in 1..Len(matching) |-> matching[j].callback]

\* EventEmitter's constructor
NewEmitter == [subscribers |-> <<>>, seq |-> sequencer]

\* the object that on() returns: its unsubscribe is _unsubscribe bound to the
\* emitter, with no argument bound
handle(c) == [unsubscribe |-> [fn |-> "_unsubscribe", boundArgs |-> <<>>]]

\* _unsubscribe as it would be without its test of the index: splice(-1, 1)
\* removes the last element
_unsubscribe_unguarded(c, anId) ==
  LET hits == { j \in 1..Len(c.subscribers) : c.subscribers[j].id = anId }
      j == IF hits = {} THEN Len(c.subscribers)
           ELSE CHOOSE x \in hits : \A y \in hits : x <= y
  IN [c EXCEPT !.subscribers = splice(@, j)]

\* EventEmitter._unsubscribe
_unsubscribe(c, anId) ==
  LET hits == { j \in 1..Len(c.subscribers) : c.subscribers[j].id = anId }
      j == IF hits = {} THEN 0 ELSE CHOOSE x \in hits : \A y \in hits : x <= y
  IN IF j > 0 THEN [c EXCEPT !.subscribers = splice(@, j)] ELSE c

\* a call of the bound function with args: _unsubscribe receives the bound
\* arguments, then args; its parameter is undefined when there is none
callBound(c, bound, args) ==
  LET all == bound.boundArgs \o args
  IN _unsubscribe(c, IF all = <<>> THEN NoId ELSE Head(all))

\* the functions a caller may subscribe: f and g return, boom throws
Callbacks == { "f", "g", "boom" }
Throws(callback) == callback = "boom"

\* Array.prototype.forEach(s => s.callback(data)) over the callbacks cbs: the
\* invocations it makes, and whether an exception left it
RECURSIVE forEach(_, _)
forEach(cbs, data) ==
  IF cbs = <<>> THEN [invoked |-> <<>>, raised |-> FALSE]
  ELSE LET one == [callback |-> Head(cbs), data |-> data]
       IN IF Throws(Head(cbs))
          THEN [invoked |-> <<one>>, raised |-> TRUE]
          ELSE LET rest == forEach(Tail(cbs), data)
               IN [invoked |-> <<one>> \o rest.invoked, raised |-> rest.raised]

(***************************************************************************)
(* TaskComponent.  A component is a record of its fields and of the parts  *)
(* of its DOM subtree that the code reads or writes.                       *)
(***************************************************************************)
\* the constructor: no element, no handlers, no edit panel
NewComponent(h) ==
  [model |-> h, element |-> FALSE, attached |-> FALSE, label |-> "",
   edit |-> FALSE, editHidden |-> FALSE, childrenHidden |-> FALSE,
   handlers |-> <<>>, subscribers |-> <<>>, seq |-> sequencer, inputId |-> "",
   hiddenBy |-> "", late |-> FALSE, log |-> <<>>]

\* the id that init gives the checkbox: `task-${this._model.id}`
inputIdOf(id) == "task-" \o (IF id = NoId THEN "undefined" ELSE ToString(id))

\* TaskComponent.init: builds the element, names the checkbox, sets the
\* label, binds edit and complete
TaskComponent_init(c, ms) ==
  [c EXCEPT !.element = TRUE,
            !.inputId = inputIdOf(ms[c.model].id),
            !.label = ms[c.model].description,
            !.handlers = @ \o << NewHandler("edit", "edit"),
                                 NewHandler("complete", "complete") >>]

\* TaskComponent.edit
edit(c) ==
  LET c1 == IF c.edit
            THEN [c EXCEPT !.editHidden = FALSE]
            ELSE [c EXCEPT !.edit = TRUE, !.editHidden = FALSE,
                           !.handlers = @ \o << NewHandler("save", "save"),
                                                NewHandler("cancel", "cancel") >>]
  IN [c1 EXCEPT !.childrenHidden = TRUE, !.hiddenBy = ""]

\* TaskComponent._hideEditField, called by `caller` (save or cancel), which
\* hiddenBy keeps for the record; `late` records that it ran on an element
\* that destroy() had removed from the document
_hideEditField(c, caller) ==
  LET c1 == IF c.edit THEN [c EXCEPT !.editHidden = TRUE] ELSE c
  IN [c1 EXCEPT !.childrenHidden = FALSE, !.hiddenBy = caller,
                !.late = @ \/ (c.element /\ ~c.attached)]

\* _update as it would be if it left the label alone
_update_stale(c, ms) == c

\* TaskComponent._update
_update(c, ms) ==
  IF c.element THEN [c EXCEPT !.label = ms[c.model].description] ELSE c

\* cancel as it would be if it hid the edit panel without restoring the view
cancel_panelOnly(c) == [c EXCEPT !.editHidden = TRUE, !.hiddenBy = "cancel"]

\* TaskComponent.cancel
cancel(c) == _hideEditField(c, "cancel")

\* destroy as it would be if it unregistered the two handlers of init only
destroy_initOnly(c) ==
  LET n == Len(c.handlers)
      c1 == [c EXCEPT !.handlers = [j \in 1..n |-> IF j <= 2 THEN unregister(c.handlers[j])
                                                   ELSE c.handlers[j]],
                      !.log = @ \o [j \in 1..(IF n < 2 THEN n ELSE 2) |->
                                      c.handlers[j].button]]
  IN [c1 EXCEPT !.attached = FALSE, !.log = Append(@, "remove")]

\* TaskComponent.destroy: unregisters every handler of _handlers, in order,
\* then removes the element from the document.  `log` records the order.
destroy(c) ==
  LET n == Len(c.handlers)
      c1 == [c EXCEPT !.handlers = [j \in 1..n |-> unregister(c.handlers[j])],
                      !.log = @ \o [j \in 1..n |-> c.handlers[j].button]]
  IN [c1 EXCEPT !.attached = FALSE, !.log = Append(@, "remove")]

\* the states of the view/edit state machine, read off the DOM
Viewing(c) == c.element /\ ~c.childrenHidden /\ (c.edit => c.editHidden)
Editing(c) == c.element /\ c.childrenHidden /\ c.edit /\ ~c.editHidden

\* whether a click can reach the callback bound to `button`: the element is
\* in the document, the button is displayed and its handler is registered
Visible(c, button) ==
  /\ c.attached
  /\ IF button \in {"edit", "complete"} THEN ~c.childrenHidden
     ELSE c.edit /\ ~c.editHidden
Clickable(c, button) ==
  /\ Visible(c, button)
  /\ \E j \in 1..Len(c.handlers) :
       c.handlers[j].button = button /\ c.handlers[j].registered

(***************************************************************************)
(* RestTaskModel: what each remote operation does to the entity once the   *)
(* promise of the client has settled as `r`.                               *)
(***************************************************************************)
\* create as it would be if it took the id and left the timestamp alone
create_idOnly(m, r) ==
  IF r.kind = "resolve"
  THEN [model |-> [m EXCEPT !.id = r.value.id], result |-> "fulfilled"]
  ELSE [model |-> m, result |-> "rejected"]

\* RestTaskModel.create, after the await
create(m, r) ==
  IF r.kind = "resolve"
  THEN [model |-> [m EXCEPT !.id = r.value.id,
                            !.timestamp = DateParse(r.value.timestamp)],
        result |-> "fulfilled"]
  ELSE [model |-> m, result |-> "rejected"]

\* update as it would be if it assigned the description before the outcome
\* of the PUT is known
update_optimistic(m, newDesc, r) ==
  [model |-> [m EXCEPT !.description = newDesc],
   result |-> IF r.kind = "resolve" THEN "fulfilled" ELSE "rejected"]

\* RestTaskModel.update, after the await
update(m, newDesc, r) ==
  IF r.kind = "resolve"
  THEN [model |-> [m EXCEPT !.description = newDesc], result |-> "fulfilled"]
  ELSE [model |-> m, result |-> "rejected"]

\* delete as it would be if it swallowed the failure of the DELETE
delete_swallow(m, r) == [model |-> m, result |-> "fulfilled"]

\* RestTaskModel.delete, after the await
delete(m, r) ==
  IF r.kind = "resolve"
  THEN [model |-> m, result |-> "fulfilled"]
  ELSE [model |-> m, result |-> "rejected"]

(***************************************************************************)
(* The controller.  Its functions act on the heap of entities, the         *)
(* components and the registry, gathered in a record w.                    *)
(***************************************************************************)
World == [models |-> models, comps |-> comps, tasks |-> tasks]

\* the rendered view: the components whose element is in the document
root(cs) == { h \in DOMAIN cs : cs[h].attached }

\* Array.prototype.findIndex(t => t.model.id === id): 0 stands for -1
findIndex(ts, ms, id) ==
  LET hits == { i \in 1..Len(ts) : ms[ts[i].model].id = id }
  IN IF hits = {} THEN 0 ELSE CHOOSE i \in hits : \A j \in hits : i <= j

\* NaN, which equals no id
NaN == -1

\* parseInt(str, 10): the number its leading digits write, NaN without any
Digits == <<"0", "1", "2", "3", "4", "5", "6", "7", "8", "9">>
IsDigit(c) == \E d \in 1..10 : Digits[d] = c
digitValue(c) == (CHOOSE d \in 1..10 : Digits[d] = c) - 1

RECURSIVE parseDigits(_, _)
parseDigits(str, acc) ==
  IF str # "" /\ IsDigit(SubSeq(str, 1, 1))
  THEN parseDigits(SubSeq(str, 2, Len(str)), 10 * acc + digitValue(SubSeq(str, 1, 1)))
  ELSE acc

parseInt(str) ==
  IF str # "" /\ IsDigit(SubSeq(str, 1, 1)) THEN parseDigits(str, 0) ELSE NaN

\* taskIdOf(el), el being the checkbox of component c
taskIdOf(c) == parseInt(SubSeq(c.inputId, 6, Len(c.inputId)))

\* the id of the argument of removeTask: an entity, or an {id} literal
TaskId(task, ms) == IF task.kind = "model" THEN ms[task.h].id ELSE task.id

\* createTaskComponent(model)
createTaskComponent(w, h) ==
  LET c0 == NewComponent(h)
      c1 == TaskComponent_init(c0, w.models)
      c2 == [c1 EXCEPT !.attached = TRUE]
      c3 == on(c2, "completed", "removeTask")
  IN [w EXCEPT !.tasks = Append(@, [model |-> h, component |-> h]),
               !.comps = [x \in DOMAIN w.comps \cup {h} |->
                            IF x = h THEN c3 ELSE w.comps[x]]]

\* addTask as it would be if it registered the entity whatever create did
addTaskResume_always(w, cont, r) ==
  LET res == create(w.models[cont.model], r)
      w1 == [w EXCEPT !.models[cont.model] = res.model]
  IN [w |-> createTaskComponent(w1, cont.model), outer |-> "fulfilled"]

\* addTask, after `await model.create()`
addTaskResume(w, cont, r) ==
  LET res == create(w.models[cont.model], r)
      w1 == [w EXCEPT !.models[cont.model] = res.model]
  IN IF res.result = "fulfilled"
     THEN [w |-> createTaskComponent(w1, cont.model), outer |-> "fulfilled"]
     ELSE [w |-> w1, outer |-> "rejected"]

\* save as it would be if the refresh of a view that is no longer in the
\* document raised
saveResume_attachedOnly(w, cont, r) ==
  LET h == w.comps[cont.comp].model
      res == update(w.models[h], cont.newDesc, r)
      w1 == [w EXCEPT !.models[h] = res.model]
      c1 == _update(w1.comps[cont.comp], w1.models)
      c2 == _hideEditField(c1, "save")
  IN IF w.comps[cont.comp].attached
     THEN [w |-> [w1 EXCEPT !.comps[cont.comp] = c2], outer |-> "fulfilled"]
     ELSE [w |-> w1, outer |-> "rejected"]

\* save as it would be if a cancel() during the await made it drop the
\* outcome of the update
saveResume_unlessCancelled(w, cont, r) ==
  LET h == w.comps[cont.comp].model
      res == update(w.models[h], cont.newDesc, r)
      w1 == [w EXCEPT !.models[h] = res.model]
      c1 == _update(w1.comps[cont.comp], w1.models)
      c2 == _hideEditField(c1, "save")
  IN IF w.comps[cont.comp].hiddenBy = "cancel"
     THEN [w |-> w, outer |-> "fulfilled"]
     ELSE [w |-> [w1 EXCEPT !.comps[cont.comp] = c2], outer |-> "fulfilled"]

\* TaskComponent.save, after `await this._model.update(newDesc)`
saveResume(w, cont, r) ==
  LET h == w.comps[cont.comp].model
      res == update(w.models[h], cont.newDesc, r)
      w1 == [w EXCEPT !.models[h] = res.model]
      c1 == _update(w1.comps[cont.comp], w1.models)
      c2 == _hideEditField(c1, "save")
  IN [w |-> [w1 EXCEPT !.comps[cont.comp] = c2], outer |-> "fulfilled"]

\* removeTask as it would be if it destroyed the component and left its entry
\* in the registry
removeTaskResume_destroyOnly(w, cont, r) ==
  LET res == delete(w.models[cont.model], r)
      i == findIndex(w.tasks, w.models, TaskId(cont.task, w.models))
  IN IF res.result = "fulfilled" /\ i > 0
     THEN [w |-> [w EXCEPT !.comps[w.tasks[i].component] = destroy(@)],
           outer |-> "fulfilled"]
     ELSE [w |-> w, outer |-> "fulfilled"]

\* removeTask as it would be if, after the await, it destroyed the component
\* of the entity it had found before the await
removeTaskResume_stale(w, cont, r) ==
  LET res == delete(w.models[cont.model], r)
      i == findIndex(w.tasks, w.models, TaskId(cont.task, w.models))
  IN IF res.result = "fulfilled"
     THEN [w |-> [w EXCEPT !.comps[cont.model] = destroy(@),
                           !.tasks = IF i > 0 THEN splice(@, i) ELSE @],
           outer |-> "fulfilled"]
     ELSE [w |-> w, outer |-> "fulfilled"]

\* removeTask as it would be if, after the await, it took the first entry of
\* the registry instead of looking the task up again
removeTaskResume_head(w, cont, r) ==
  LET res == delete(w.models[cont.model], r)
      i == findIndex(w.tasks, w.models, TaskId(cont.task, w.models))
  IN IF res.result = "fulfilled" /\ i > 0
     THEN [w |-> [w EXCEPT !.comps[w.tasks[1].component] = destroy(@),
                           !.tasks = splice(@, 1)],
           outer |-> "fulfilled"]
     ELSE [w |-> w, outer |-> "fulfilled"]

\* removeTask, after `await model.delete()`
removeTaskResume(w, cont, r) ==
  LET res == delete(w.models[cont.model], r)
      i == findIndex(w.tasks, w.models, TaskId(cont.task, w.models))
  IN IF res.result = "fulfilled" /\ i > 0
     THEN [w |-> [w EXCEPT !.comps[w.tasks[i].component] = destroy(@),
                           !.tasks = splice(@, i)],
           outer |-> "fulfilled"]
     ELSE [w |-> w, outer |-> "fulfilled"]

\* init, after `await client.get('tasks')`: one entity and one component per
\* element of resp.results
RECURSIVE loadTasks(_, _)
loadTasks(w, dtos) ==
  IF dtos = <<>> THEN w
  ELSE LET h == Len(w.models) + 1
           w1 == [w EXCEPT !.models = Append(@, NewModel(Head(dtos).id,
                                                          Head(dtos).description))]
       IN loadTasks(createTaskComponent(w1, h), Tail(dtos))

\* init as it would be without its catch
initResume_uncaught(w, cont, r) ==
  IF r.kind = "resolve"
  THEN [w |-> loadTasks(w, r.value.results), outer |-> "fulfilled"]
  ELSE [w |-> w, outer |-> "rejected"]

\* init, after `await client.get('tasks')`, and its catch
initResume(w, cont, r) ==
  IF r.kind = "resolve"
  THEN [w |-> loadTasks(w, r.value.results), outer |-> "fulfilled"]
  ELSE [w |-> w, outer |-> "fulfilled"]

(***************************************************************************)
(* Remote calls.  A call is "sent" until the store has processed it,       *)
(* "answered" while its response travels back, and then settled for good:  *)
(* "resolved", "rejected", or "hung" when the response handler threw and   *)
(* the promise stays pending.  `outer` is the fate of the promise of the   *)
(* async function (init, addTask, save, removeTask) that awaits the call.  *)
(***************************************************************************)
\* RestClient._send
send(method, path, body, cont) ==
  [method |-> method, fn |-> cont.fn, phase |-> "sent", outer |-> "pending",
   path |-> path, body |-> body, resp |-> NoData, cont |-> cont]

\* what is kept of a call once its promise has settled
Settled(c, phase, outer) ==
  [method |-> c.method, fn |-> c.fn, phase |-> phase, outer |-> outer]

Count(method) == Cardinality({ k \in 1..Len(calls) : calls[k].method = method })

\* the calls of a method that the store has not processed yet
Pending(method) ==
  Cardinality({ k \in 1..Len(calls) :
                  calls[k].method = method /\ calls[k].phase = "sent" })

\* the rows of the store in the order of their ids
RECURSIVE SortedRows(_, _)
SortedRows(rows, ids) ==
  IF ids = {} THEN <<>>
  ELSE LET i == CHOOSE x \in ids : \A y \in ids : x <= y
       IN <<rows[i]>> \o SortedRows(rows, ids \ {i})

\* the store's handling of a request it accepts: its new state and the body
\* of its answer
StoreApply(st, c) ==
  CASE c.method = "GET" ->
         [store |-> st,
          data |-> [results |-> SortedRows(st.rows, DOMAIN st.rows)]]
    [] c.method = "POST" ->
         LET row == [id |-> st.next, description |-> c.body.description,
                     timestamp |-> IsoString(StoreNow)]
         IN [store |-> [rows |-> [i \in DOMAIN st.rows \cup {st.next} |->
                                    IF i = st.next THEN row ELSE st.rows[i]],
                        next |-> st.next + 1],
             data |-> row]
    [] c.method = "PUT" ->
         [store |-> IF c.path.id \in DOMAIN st.rows
                    THEN [st EXCEPT !.rows[c.path.id].description =
                                       c.body.description]
                    ELSE st,
          data |-> NoData]
    [] c.method = "DELETE" ->
         [store |-> [st EXCEPT !.rows = [i \in DOMAIN st.rows \ {c.path.id} |->
                                           st.rows[i]]],
          data |-> NoData]

(***************************************************************************)
(* The initial state: the script has run init() up to its await, so the    *)
(* listeners are bound and GET tasks is in flight.                         *)
(***************************************************************************)
InitialStore(n) ==
  [rows |-> [i \in 1..n |-> [id |-> i, description |-> StoredDesc,
                             timestamp |-> IsoString(StoreNow)]],
   next |-> n + 1]

\* an emitter nobody has used yet: the object, the handles on() returned,
\* and the record of its last operation; and a second emitter, its peer
NoOperation ==
  [op |-> "new", id |-> NoId, args |-> <<>>, event |-> "", data |-> "",
   removed |-> 0, invoked |-> <<>>, raised |-> FALSE]
EmitterAtRest ==
  [obj |-> NewEmitter, handles |-> <<>>, last |-> NoOperation, peer |-> NewEmitter]

\* a client that has sent no request yet
RequestAtRest ==
  [readyState |-> "UNSENT", method |-> "", resp |-> NoData, promise |-> "none",
   settlements |-> 0, outcome |-> [kind |-> "none"]]

\* mkUrl not called yet
UrlAtRest ==
  [baseUrl |-> "", path |-> "", queryParams |-> <<>>, built |-> FALSE, value |-> ""]

Init ==
  /\ \E n \in 0..MaxTasks : store = InitialStore(n)
  /\ models = <<>>
  /\ comps = [h \in {} |-> 0]
  /\ tasks = <<>>
  /\ calls = << send("GET", [res |-> "tasks", id |-> NoId], NoData, [fn |-> "init"]) >>
  /\ emitter = EmitterAtRest
  /\ request = RequestAtRest
  /\ url = UrlAtRest

(***************************************************************************)
(* The user's events.                                                      *)
(***************************************************************************)
\* the submit listener of the form: addTask(form) up to its await, in a
\* behaviour of at most `limit` remote calls
SubmitWithin(limit, txt) ==
  LET desc == trim(txt)
      h == Len(models) + 1
      model == NewModel(NoId, desc)
  IN /\ IF desc # ""
        THEN /\ Len(calls) < limit
             /\ store.next + Pending("POST") <= MaxTasks
             /\ models' = Append(models, model)
             /\ calls' = Append(calls, send("POST", [res |-> "task", id |-> NoId],
                                            toDto(model),
                                            [fn |-> "addTask", model |-> h]))
        ELSE UNCHANGED <<models, calls>>
     /\ UNCHANGED <<store, comps, tasks, emitter, request, url>>

\* the submit listener in the behaviours of Spec
Submit(txt) == SubmitWithin(MaxCalls, txt)

\* a click on the edit button: TaskComponent.edit
Edit(h) ==
  /\ h \in DOMAIN comps
  /\ Clickable(comps[h], "edit")
  /\ comps' = [comps EXCEPT ![h] = edit(@)]
  /\ UNCHANGED <<store, models, tasks, calls, emitter, request, url>>

\* the click on the edit button, with a record of the editing sessions:
\* edit() opens a new session, and the save() of this component that still
\* awaits its update is marked `stale`, a mark that no code reads
EditSession(h) ==
  /\ h \in DOMAIN comps
  /\ Clickable(comps[h], "edit")
  /\ comps' = [comps EXCEPT ![h] = edit(@)]
  /\ calls' = [k \in 1..Len(calls) |->
                IF /\ calls[k].fn = "save"
                   /\ calls[k].phase \in {"sent", "answered"}
                   /\ calls[k].cont.comp = h
                THEN [calls[k] EXCEPT !.cont.stale = TRUE]
                ELSE calls[k]]
  /\ UNCHANGED <<store, models, tasks, emitter, request, url>>

\* a click on the cancel button: TaskComponent.cancel
Cancel(h) ==
  /\ h \in DOMAIN comps
  /\ Clickable(comps[h], "cancel")
  /\ comps' = [comps EXCEPT ![h] = cancel(@)]
  /\ UNCHANGED <<store, models, tasks, calls, emitter, request, url>>

\* save as it would be without its test of the trimmed input
Save_unchecked(h, txt) ==
  LET c == comps[h]
      newDesc == trim(txt)
  IN /\ h \in DOMAIN comps
     /\ Clickable(c, "save")
     /\ Len(calls) < MaxCalls
     /\ calls' = Append(calls,
          send("PUT", [res |-> "task", id |-> models[c.model].id],
               [description |-> newDesc],
               [fn |-> "save", comp |-> h, newDesc |-> newDesc,
                stale |-> FALSE]))
     /\ UNCHANGED <<store, models, comps, tasks, emitter, request, url>>

\* a click on the save button with txt in the input: TaskComponent.save up
\* to its await, or to its end when the trimmed input is empty
SaveWithin(limit, h, txt) ==
  LET c == comps[h]
      newDesc == trim(txt)
  IN /\ h \in DOMAIN comps
     /\ Clickable(c, "save")
     /\ IF c.edit
        THEN IF newDesc # ""
             THEN /\ Len(calls) < limit
                  /\ calls' = Append(calls,
                       send("PUT", [res |-> "task", id |-> models[c.model].id],
                            [description |-> newDesc],
                            [fn |-> "save", comp |-> h, newDesc |-> newDesc,
                             stale |-> FALSE]))
                  /\ UNCHANGED comps
             ELSE /\ comps' = [comps EXCEPT ![h] = _hideEditField(_update(c, models), "save")]
                  /\ UNCHANGED calls
        ELSE UNCHANGED <<comps, calls>>
     /\ UNCHANGED <<store, models, tasks, emitter, request, url>>

\* the click on save in the behaviours of Spec
Save(h, txt) == SaveWithin(MaxCalls, h, txt)

\* removeTask(task) up to its await: the calls issued so far, and after it
removeTask(cs, task) ==
  LET i == findIndex(tasks, models, TaskId(task, models))
  IN IF i > 0
     THEN Append(cs, send("DELETE",
                          [res |-> "task", id |-> models[tasks[i].model].id],
                          NoData,
                          [fn |-> "removeTask", task |-> task,
                           model |-> tasks[i].model]))
     ELSE cs

\* the callbacks of one emit('completed', model), run in order
RECURSIVE invoke(_, _, _)
invoke(cbs, cs, task) ==
  IF cbs = <<>> THEN cs
  ELSE invoke(Tail(cbs), IF Head(cbs) = "removeTask" THEN removeTask(cs, task) ELSE cs,
              task)

\* complete as it would be if it emitted nothing
complete_silent(c, cs) == cs

\* TaskComponent.complete: the calls after emit('completed', this._model)
complete(c, cs) == invoke(emit(c, "completed"), cs, [kind |-> "model", h |-> c.model])

\* the click on complete as it would be if complete() tore the component down
\* itself
Complete_destroying(h) ==
  /\ h \in DOMAIN comps
  /\ Clickable(comps[h], "complete")
  /\ calls' = complete(comps[h], calls)
  /\ Len(calls') <= MaxCalls
  /\ comps' = [comps EXCEPT ![h] = destroy(@)]
  /\ UNCHANGED <<store, models, tasks, emitter, request, url>>

\* a click on the complete button
CompleteWithin(limit, h) ==
  /\ h \in DOMAIN comps
  /\ Clickable(comps[h], "complete")
  /\ calls' = complete(comps[h], calls)
  /\ Len(calls') <= limit
  /\ UNCHANGED <<store, models, comps, tasks, emitter, request, url>>

\* the click on complete in the behaviours of Spec
Complete(h) == CompleteWithin(MaxCalls, h)

\* removeSelectedTasks: removeTask({id: taskIdOf(el)}) for each checked
\* checkbox of the document, in document order, which is the order of the
\* registry; `checked` is the set of the components whose box is checked
RECURSIVE removeEach(_, _, _)
removeEach(cs, checked, i) ==
  IF i > Len(tasks) THEN cs
  ELSE removeEach(IF tasks[i].component \in checked
                  THEN removeTask(cs, [kind |-> "obj",
                                       id |-> taskIdOf(comps[tasks[i].component])])
                  ELSE cs,
                  checked, i + 1)

removeSelectedTasks(cs, checked) == removeEach(cs, checked, 1)

\* a click on 'complete selected', the boxes of `checked` being checked
CompleteSelectedWithin(limit, checked) ==
  /\ checked # {}
  /\ checked \subseteq root(comps)
  /\ calls' = removeSelectedTasks(calls, checked)
  /\ Len(calls') <= limit
  /\ UNCHANGED <<store, models, comps, tasks, emitter, request, url>>

(***************************************************************************)
(* The store and the settlement of the calls.                              *)
(***************************************************************************)
\* the store processes call k and answers it with a
Process(k, a) ==
  LET c == calls[k]
      ap == StoreApply(store, c)
      ok == IsSuccess(a.status)
  IN /\ c.phase = "sent"
     /\ store' = IF ok THEN ap.store ELSE store
     /\ calls' = [calls EXCEPT ![k].phase = "answered",
                               ![k].resp = [status |-> a.status, header |-> a.header,
                                            parses |-> a.parses,
                                            data |-> IF ok /\ a.parses THEN ap.data
                                                     ELSE NoData]]
     /\ UNCHANGED <<models, comps, tasks, emitter, request, url>>

\* the continuation of the async function that awaits a call
resume(w, cont, r) ==
  CASE cont.fn = "init" -> initResume(w, cont, r)
    [] cont.fn = "addTask" -> addTaskResume(w, cont, r)
    [] cont.fn = "save" -> saveResume(w, cont, r)
    [] cont.fn = "removeTask" -> removeTaskResume(w, cont, r)

\* the response of call k arrives: handleJsonResponse settles the promise and
\* the awaiting function runs to its end
Settle(k) ==
  LET c == calls[k]
      r == handleJsonResponse(c.resp)
      out == resume(World, c.cont, r)
  IN /\ c.phase = "answered"
     /\ IF r.kind = "throw"
        THEN /\ calls' = [calls EXCEPT ![k] = Settled(c, "hung", "pending")]
             /\ UNCHANGED <<models, comps, tasks>>
        ELSE /\ calls' = [calls EXCEPT ![k] =
                            Settled(c, IF r.kind = "resolve" THEN "resolved"
                                       ELSE "rejected", out.outer)]
             /\ models' = out.w.models
             /\ comps' = out.w.comps
             /\ tasks' = out.w.tasks
     /\ UNCHANGED <<store, emitter, request, url>>

Next ==
  \/ \E txt \in Inputs : Submit(txt)
  \/ \E h \in DOMAIN comps : Edit(h)
  \/ \E h \in DOMAIN comps : Cancel(h)
  \/ \E h \in DOMAIN comps, txt \in Inputs : Save(h, txt)
  \/ \E h \in DOMAIN comps : Complete(h)
  \/ \E k \in 1..Len(calls) : \E a \in StoreAnswers(calls[k].method) : Process(k, a)
  \/ \E k \in 1..Len(calls) : Settle(k)

Spec == Init /\ [][Next]_vars

(***************************************************************************)
(* An EventEmitter used on its own: a caller subscribes callbacks, calls   *)
(* the unsubscribe of the handles it got, and emits.                       *)
(***************************************************************************)
\* subscriptions made on the emitter in one behaviour
MaxSubs == 3

\* the event names and the payloads the caller uses
Events == { "completed", "other" }
Payloads == { "p", "q" }

\* the page before its script runs
NoProgram ==
  /\ store = InitialStore(0)
  /\ models = <<>>
  /\ comps = [h \in {} |-> 0]
  /\ tasks = <<>>
  /\ calls = <<>>

InitEmitter == NoProgram /\ emitter = EmitterAtRest /\ request = RequestAtRest /\ url = UrlAtRest

\* on(event, callback): the subscription, and the handle kept by the caller;
\* the j-th handle is the one returned for the subscription of id j
EmitterOn(event, callback) ==
  LET c == on(emitter.obj, event, callback)
  IN /\ emitter.obj.seq <= MaxSubs
     /\ emitter' = [emitter EXCEPT
                      !.obj = c,
                      !.handles = Append(@, handle(c)),
                      !.last = [NoOperation EXCEPT
                                  !.op = "on", !.event = event,
                                  !.id = c.subscribers[Len(c.subscribers)].id]]
     /\ UNCHANGED <<store, models, comps, tasks, calls, request, url>>

\* handle.unsubscribe(args...) on the j-th handle
unsubscribeVia(j, args) ==
  LET c == callBound(emitter.obj, emitter.handles[j].unsubscribe, args)
  IN [emitter EXCEPT
        !.obj = c,
        !.last = [NoOperation EXCEPT
                    !.op = "unsubscribe", !.id = j, !.args = args,
                    !.removed = Len(emitter.obj.subscribers) - Len(c.subscribers)]]

\* handle.unsubscribe(): the call with no argument
EmitterUnsubscribe(j) ==
  /\ j \in 1..Len(emitter.handles)
  /\ emitter' = unsubscribeVia(j, <<>>)
  /\ UNCHANGED <<store, models, comps, tasks, calls, request, url>>

\* handle.unsubscribe(anId): the caller passes an id, which reaches
\* _unsubscribe as its parameter
EmitterUnsubscribeId(j, anId) ==
  /\ j \in 1..Len(emitter.handles)
  /\ emitter' = unsubscribeVia(j, <<anId>>)
  /\ UNCHANGED <<store, models, comps, tasks, calls, request, url>>

\* emit(event, data)
EmitterEmit(event, data) ==
  LET r == forEach(emit(emitter.obj, event), data)
  IN /\ emitter' = [emitter EXCEPT
                      !.last = [NoOperation EXCEPT
                                  !.op = "emit", !.event = event, !.data = data,
                                  !.invoked = r.invoked, !.raised = r.raised]]
     /\ UNCHANGED <<store, models, comps, tasks, calls, request, url>>

NextEmitter ==
  \/ \E e \in Events, cb \in Callbacks : EmitterOn(e, cb)
  \/ \E j \in 1..Len(emitter.handles) : EmitterUnsubscribe(j)
  \/ \E j \in 1..Len(emitter.handles), anId \in 1..(MaxSubs + 1) :
       EmitterUnsubscribeId(j, anId)
  \/ \E e \in Events, d \in Payloads : EmitterEmit(e, d)

SpecEmitter == InitEmitter /\ [][NextEmitter]_vars

(***************************************************************************)
(* Two EventEmitters side by side: each was given its own sequence         *)
(* function by its constructor, and subscriptions are made on both.        *)
(***************************************************************************)
\* on(event, callback) on the second emitter
PeerOn(event, callback) ==
  /\ emitter.peer.seq <= MaxSubs
  /\ emitter' = [emitter EXCEPT !.peer = on(@, event, callback)]
  /\ UNCHANGED <<store, models, comps, tasks, calls, request, url>>

NextSequencer ==
  \/ \E e \in Events : EmitterOn(e, "f")
  \/ \E e \in Events : PeerOn(e, "f")
  \/ \E j \in 1..Len(emitter.handles), anId \in 1..(MaxSubs + 1) :
       EmitterUnsubscribeId(j, anId)

SpecSequencer == InitEmitter /\ [][NextSequencer]_vars

(***************************************************************************)
(* A RestClient used on its own: one request, from _send to the response   *)
(* that completes it.  The browser calls onreadystatechange at each change *)
(* of readyState; the promise of _send is settled by handleJsonResponse.   *)
(***************************************************************************)
Methods == { "GET", "POST", "PUT", "DELETE" }

\* what a server may answer: the status, the Content-type header (or none),
\* and a body that is JSON text or not
Statuses == { 200, 201, 404, 500 }
Headers ==
  { NullHeader, "application/json", "application/json; charset=utf-8",
    "text/json", "text/plain" }
Responses ==
  [status : Statuses, header : Headers, parses : BOOLEAN, data : {"body"}]

InitRequest == NoProgram /\ emitter = EmitterAtRest /\ request = RequestAtRest /\ url = UrlAtRest

\* the handler that _send installs: handleJsonResponse acts when readyState
\* is DONE and returns at once otherwise
onreadystatechange(rq) ==
  IF rq.readyState = "DONE" THEN handleJsonResponse(rq.resp) ELSE [kind |-> "none"]

\* resolve or reject called on the promise of _send: the first call settles
\* it, an exception in the handler calls neither
settle(rq, r) ==
  IF r.kind \in {"resolve", "reject"}
  THEN [rq EXCEPT !.promise = IF @ = "pending"
                              THEN (IF r.kind = "resolve" THEN "resolved" ELSE "rejected")
                              ELSE @,
                  !.settlements = @ + 1,
                  !.outcome = r]
  ELSE [rq EXCEPT !.outcome = r]

\* the request at its next readyState, after the handler has run
advance(rq, readyState) ==
  LET rq1 == [rq EXCEPT !.readyState = readyState]
  IN settle(rq1, onreadystatechange(rq1))

\* get, post, put or del: _send creates the promise, opens and sends
RequestSend(method) ==
  /\ request.readyState = "UNSENT"
  /\ request' = advance([request EXCEPT !.method = method, !.promise = "pending"],
                        "OPENED")
  /\ UNCHANGED <<store, models, comps, tasks, calls, emitter, url>>

\* the status line and the headers of the response have arrived
RequestHeaders(resp) ==
  /\ request.readyState = "OPENED"
  /\ request' = advance([request EXCEPT !.resp = resp], "HEADERS_RECEIVED")
  /\ UNCHANGED <<store, models, comps, tasks, calls, emitter, url>>

\* the body is arriving
RequestLoading ==
  /\ request.readyState = "HEADERS_RECEIVED"
  /\ request' = advance(request, "LOADING")
  /\ UNCHANGED <<store, models, comps, tasks, calls, emitter, url>>

\* the response is complete
RequestDone ==
  /\ request.readyState = "LOADING"
  /\ request' = advance(request, "DONE")
  /\ UNCHANGED <<store, models, comps, tasks, calls, emitter, url>>

NextRequest ==
  \/ \E method \in Methods : RequestSend(method)
  \/ \E resp \in Responses : RequestHeaders(resp)
  \/ RequestLoading
  \/ RequestDone

SpecRequest == InitRequest /\ [][NextRequest]_vars

(***************************************************************************)
(* mkUrl on its own: a caller builds the URL of a base and a path.         *)
(***************************************************************************)
\* the bases, the paths and the query parameters a caller passes
BaseUrls == { "", "api", "/api", "api/", "/api/", "/api//", " /api/ " }
Paths == { "task/1", "/task/1", "task/1/", "/task/1/", "//task/1", " /task/1 " }
QueryParams ==
  { <<>>,
    << [key |-> "q", val |-> "a b"] >>,
    << [key |-> "done", val |-> ""], [key |-> "p/q", val |-> "1"] >> }

InitUrl ==
  /\ NoProgram /\ emitter = EmitterAtRest /\ request = RequestAtRest
  /\ \E b \in BaseUrls, p \in Paths, q \in QueryParams :
       url = [UrlAtRest EXCEPT !.baseUrl = b, !.path = p, !.queryParams = q]

\* the call of mkUrl on the arguments
BuildUrl ==
  /\ ~url.built
  /\ url' = [url EXCEPT !.built = TRUE,
                        !.value = mkUrl(url.baseUrl, url.path, url.queryParams)]
  /\ UNCHANGED <<store, models, comps, tasks, calls, emitter, request>>

NextUrl == BuildUrl

SpecUrl == InitUrl /\ [][NextUrl]_vars

(***************************************************************************)
(* The scenario of one task: the page has loaded from an empty store, the  *)
(* user adds 'Buy milk', edits it to 'Buy oat milk' and completes it, and  *)
(* the store accepts every call.                                           *)
(***************************************************************************)
\* what the user types in the form, and in the edit field
AddInputs == { "Buy milk" }
EditInputs == { " Buy oat milk" }

\* the calls of the scenario: those of Spec and one more, so that the GET of
\* init() is followed by a creation, an update and a removal
MaxScenarioCalls == MaxCalls + 1

\* a store that accepts a call answers it with a success status
StoreAccepts(method) == { a \in StoreAnswers(method) : IsSuccess(a.status) }

\* the page once init() has loaded the tasks of an empty store
InitScenario ==
  /\ store = InitialStore(0)
  /\ models = <<>>
  /\ comps = [h \in {} |-> 0]
  /\ tasks = <<>>
  /\ calls = << Settled(send("GET", [res |-> "tasks", id |-> NoId], NoData,
                              [fn |-> "init"]),
                         "resolved", "fulfilled") >>
  /\ emitter = EmitterAtRest
  /\ request = RequestAtRest
  /\ url = UrlAtRest

NextScenario ==
  \/ \E txt \in AddInputs : SubmitWithin(MaxScenarioCalls, txt)
  \/ \E h \in DOMAIN comps : Edit(h)
  \/ \E h \in DOMAIN comps : Cancel(h)
  \/ \E h \in DOMAIN comps, txt \in EditInputs : SaveWithin(MaxScenarioCalls, h, txt)
  \/ \E h \in DOMAIN comps : CompleteWithin(MaxScenarioCalls, h)
  \/ \E k \in 1..Len(calls) : \E a \in StoreAccepts(calls[k].method) : Process(k, a)
  \/ \E k \in 1..Len(calls) : Settle(k)

SpecScenario == InitScenario /\ [][NextScenario]_vars

(***************************************************************************)
(* Removals in flight together: the page has loaded the tasks of the store *)
(* and the user completes them, one by one or the selected ones at once,   *)
(* while the store answers and the answers arrive in any order.            *)
(***************************************************************************)
\* the tasks the store holds when the page loads
LoadedTasks == 3

\* the removeTask calls issued: two of them are in flight together
MaxRemovals == 2

\* the GET of init() and the DELETEs
MaxRemovalCalls == MaxRemovals + 1

\* the page once init() has loaded the n tasks of the store
Loaded(n) ==
  LET st == InitialStore(n)
      w == loadTasks([models |-> <<>>, comps |-> [h \in {} |-> 0], tasks |-> <<>>],
                     SortedRows(st.rows, DOMAIN st.rows))
  IN /\ store = st
     /\ models = w.models
     /\ comps = w.comps
     /\ tasks = w.tasks
     /\ calls = << Settled(send("GET", [res |-> "tasks", id |-> NoId], NoData,
                                 [fn |-> "init"]),
                            "resolved", "fulfilled") >>
     /\ emitter = EmitterAtRest
     /\ request = RequestAtRest
     /\ url = UrlAtRest

InitRemoval == Loaded(LoadedTasks)

NextRemoval ==
  \/ \E h \in DOMAIN comps : CompleteWithin(MaxRemovalCalls, h)
  \/ \E checked \in SUBSET DOMAIN comps : CompleteSelectedWithin(MaxRemovalCalls, checked)
  \/ \E k \in 1..Len(calls) : \E a \in StoreAnswers(calls[k].method) : Process(k, a)
  \/ \E k \in 1..Len(calls) : Settle(k)

SpecRemoval == InitRemoval /\ [][NextRemoval]_vars

(***************************************************************************)
(* Editing sessions: the page has loaded one task, and the user edits it,  *)
(* saves and cancels while the updates are in flight.                      *)
(***************************************************************************)
InitSession == Loaded(1)

NextSession ==
  \/ \E h \in DOMAIN comps : EditSession(h)
  \/ \E h \in DOMAIN comps : Cancel(h)
  \/ \E h \in DOMAIN comps, txt \in Inputs : Save(h, txt)
  \/ \E k \in 1..Len(calls) : \E a \in StoreAnswers(calls[k].method) : Process(k, a)
  \/ \E k \in 1..Len(calls) : Settle(k)

SpecSession == InitSession /\ [][NextSession]_vars

(***************************************************************************)
(* Properties.                                                             *)
(***************************************************************************)
Calls == 1..Len(calls)

\* this step settles call k, which was issued by fn, as `phase`
Settles(k, fn, phase) ==
  /\ calls[k].phase = "answered"
  /\ calls[k].fn = fn
  /\ calls'[k].phase = phase

\* the entity that the save() awaiting call k belongs to
SavedModel(k) == comps[calls[k].cont.comp].model

\* C1: RestTaskModel.update commits the new description only when the PUT
\* settles successfully.  A step changes the description of an entity only by
\* resolving a PUT of a save() on it, to the description that PUT carried;
\* and when a PUT is rejected (status 500, say) update() rejects, the entity
\* is as it was (so it was while the call was in flight), and the label that
\* save() then renders is the description the entity had before.
C1_UpdateOnlyOnSuccess ==
  [][ /\ \A h \in DOMAIN models :
           models'[h].description # models[h].description
           => \E k \in Calls :
                /\ Settles(k, "save", "resolved")
                /\ SavedModel(k) = h
                /\ IsSuccess(calls[k].resp.status)
                /\ models'[h].description = calls[k].cont.newDesc
      /\ \A k \in Calls :
           Settles(k, "save", "rejected")
           => /\ update(models[SavedModel(k)], calls[k].cont.newDesc,
                        handleJsonResponse(calls[k].resp)).result = "rejected"
              /\ models' = models
              /\ comps'[calls[k].cont.comp].label = models[SavedModel(k)].description
    ]_vars

\* a PUT answered 500 was rejected, the only PUT so far, and the component
\* shows the description of the store's task, not the edit
C1_Witness ==
  \E k \in Calls :
    /\ calls[k].method = "PUT" /\ calls[k].phase = "rejected"
    /\ Count("PUT") = 1
    /\ \E h \in DOMAIN comps :
         /\ comps[h].hiddenBy = "save"
         /\ comps[h].label = StoredDesc
         /\ models[comps[h].model].description = StoredDesc

\* C2: removeTask removes the registry entry and the view only once the
\* DELETE has settled successfully (status 200 or 201); a rejected DELETE
\* (status 404, say) leaves the registry and every component as they were,
\* and removeTask catches the failure: its own promise is fulfilled.
C2_RemoveOnlyAfterDelete ==
  [][ /\ ( \/ Len(tasks') < Len(tasks)
           \/ \E h \in DOMAIN comps : comps[h].attached /\ ~comps'[h].attached )
         => \E k \in Calls :
              /\ Settles(k, "removeTask", "resolved")
              /\ IsSuccess(calls[k].resp.status)
      /\ \A k \in Calls :
           Settles(k, "removeTask", "rejected")
           => /\ tasks' = tasks
              /\ comps' = comps
              /\ calls'[k].outer = "fulfilled"
    ]_vars

\* the only DELETE was rejected, and every task loaded or added is still in
\* the registry and rendered
C2_Witness ==
  /\ Count("DELETE") = 1
  /\ \E k \in Calls : /\ calls[k].method = "DELETE" /\ calls[k].phase = "rejected"
                      /\ calls[k].outer = "fulfilled"
  /\ Len(tasks) > 0
  /\ \A h \in DOMAIN comps : comps[h].attached /\ \E i \in 1..Len(tasks) : tasks[i].model = h

\* C3: when the POST of create() resolves with the body {id, description,
\* timestamp}, the entity holds the id and the timestamp of that body, in
\* place of the absent id and of the time of its construction.
C3_CreateTakesServerValues ==
  [][ \A k \in Calls :
        Settles(k, "addTask", "resolved")
        => LET h == calls[k].cont.model
               dto == calls[k].resp.data
           IN /\ models[h].id = NoId
              /\ models[h].timestamp = NewDate
              /\ models'[h].id = dto.id
              /\ models'[h].timestamp.type = "number"
              /\ models'[h].timestamp.ms = dto.timestamp.ms
    ]_vars

\* a created entity with the store's id and the store's time
C3_Witness ==
  \E h \in DOMAIN models :
    /\ models[h].id # NoId
    /\ models[h].timestamp = [type |-> "number", ms |-> StoreNow]
    /\ \E k \in Calls : calls[k].method = "POST" /\ calls[k].phase = "resolved"

\* C4: when the POST of create() is rejected, create() rejects to addTask and
\* addTask to its caller, the entity still has no id, and neither the
\* registry nor any component changes.
C4_CreateFailureAddsNothing ==
  [][ \A k \in Calls :
        Settles(k, "addTask", "rejected")
        => LET h == calls[k].cont.model
           IN /\ create(models[h], handleJsonResponse(calls[k].resp)).result = "rejected"
              /\ calls'[k].outer = "rejected"
              /\ models'[h].id = NoId
              /\ models' = models
              /\ tasks' = tasks
              /\ comps' = comps
              /\ h \notin DOMAIN comps'
    ]_vars

\* a rejected POST, and its entity without id, registry entry or component
C4_Witness ==
  \E k \in Calls :
    /\ calls[k].method = "POST" /\ calls[k].phase = "rejected"
    /\ calls[k].outer = "rejected"
    /\ \E h \in DOMAIN models :
         /\ models[h].id = NoId
         /\ h \notin DOMAIN comps
         /\ \A i \in 1..Len(tasks) : tasks[i].model # h

\* C5: when the PUT of a save() settles, resolved or rejected, save() is
\* fulfilled, and the component is Viewing and its label is the description
\* the entity then has.
C5_SaveEndsViewing ==
  [][ \A k \in Calls :
        ( Settles(k, "save", "resolved") \/ Settles(k, "save", "rejected") )
        => LET c == calls[k].cont.comp
           IN /\ calls'[k].outer = "fulfilled"
              /\ Viewing(comps'[c])
              /\ comps'[c].label = models'[SavedModel(k)].description
    ]_vars

\* a save() whose PUT resolved: the component is Viewing and shows the edit
C5_Witness ==
  \E k \in Calls :
    /\ calls[k].method = "PUT" /\ calls[k].phase = "resolved"
    /\ calls[k].outer = "fulfilled"
    /\ \E h \in DOMAIN comps :
         /\ Viewing(comps[h]) /\ comps[h].hiddenBy = "save"
         /\ comps[h].label # StoredDesc
         /\ comps[h].label = models[comps[h].model].description

\* an input that is empty or holds whitespace only
IsBlank(txt) == \A i \in 1..Len(txt) : SubSeq(txt, i, i) = " "

\* C6: save() in the Editing state with an empty or whitespace-only input
\* issues no remote call, leaves every entity (and the store) as it was, and
\* leaves the component Viewing.
C6_BlankSaveIsLocal ==
  [][ \A h \in DOMAIN comps : \A txt \in Inputs :
        ( IsBlank(txt) /\ Editing(comps[h]) /\ Save(h, txt) )
        => /\ calls' = calls
           /\ models' = models
           /\ store' = store
           /\ Viewing(comps'[h])
    ]_vars

\* a component that save() returned to Viewing although no PUT was ever issued
C6_Witness ==
  /\ Count("PUT") = 0
  /\ \E h \in DOMAIN comps :
       /\ comps[h].hiddenBy = "save" /\ Viewing(comps[h])
       /\ models[comps[h].model].description = StoredDesc

\* C7: cancel() in the Editing state leaves the component Viewing, issues no
\* remote call, and leaves the entities (id, description, timestamp), the
\* registry and the store as they were.
C7_CancelIsLocal ==
  [][ \A h \in DOMAIN comps :
        ( Editing(comps[h]) /\ Cancel(h) )
        => /\ Viewing(comps'[h])
           /\ calls' = calls
           /\ models' = models
           /\ tasks' = tasks
           /\ store' = store
    ]_vars

\* a component that cancel() returned to Viewing
C7_Witness ==
  \E h \in DOMAIN comps :
    /\ comps[h].hiddenBy = "cancel" /\ Viewing(comps[h]) /\ comps[h].edit
    /\ \E i \in 1..Len(tasks) : tasks[i].component = h

\* a handler of component h is unregistered, or its element removed, by
\* this step
TornDown(h) ==
  \/ comps[h].attached /\ ~comps'[h].attached
  \/ \E j \in 1..Len(comps[h].handlers) :
       comps[h].handlers[j].registered /\ ~comps'[h].handlers[j].registered

\* C8: complete() only emits 'completed' with the component's entity, which
\* the controller's subscriber answers by issuing the DELETE of removeTask:
\* the step changes no component, no entity and no registry entry.  A binding
\* is torn down or a view removed only by the step that resolves a DELETE of
\* removeTask.
C8_CompleteOnlyEmits ==
  [][ /\ \A h \in DOMAIN comps :
           Complete(h)
           => /\ comps' = comps
              /\ tasks' = tasks
              /\ models' = models
              /\ Len(calls') = Len(calls) + 1
              /\ SubSeq(calls', 1, Len(calls)) = calls
              /\ calls'[Len(calls')].method = "DELETE"
              /\ calls'[Len(calls')].cont.task = [kind |-> "model", h |-> comps[h].model]
      /\ \A h \in DOMAIN comps :
           TornDown(h) => \E k \in Calls : Settles(k, "removeTask", "resolved")
    ]_vars

\* a completed task whose DELETE is in flight: it is still registered,
\* rendered and bound
C8_Witness ==
  \E k \in Calls :
    /\ calls[k].fn = "removeTask" /\ calls[k].phase = "sent"
    /\ calls[k].cont.task.kind = "model"
    /\ LET h == calls[k].cont.task.h
       IN /\ comps[h].attached
          /\ \A j \in 1..Len(comps[h].handlers) : comps[h].handlers[j].registered
          /\ \E i \in 1..Len(tasks) : tasks[i].component = h

\* the component was destroyed
Destroyed(c) == c.element /\ ~c.attached

\* the buttons a component has bound: two by init, two more once edit() has
\* built the edit panel
Bound(c) == IF c.edit THEN <<"edit", "complete", "save", "cancel">>
            ELSE <<"edit", "complete">>

\* C9: after destroy(), in whichever state the component was, every binding
\* it created is unregistered and its view is out of the document; destroy
\* unregistered each binding once, all of them before it removed the view;
\* and no click reaches edit, complete, save or cancel any more.
C9_DestroyReleasesAll ==
  \A h \in DOMAIN comps :
    Destroyed(comps[h])
    => /\ Len(comps[h].handlers) = Len(Bound(comps[h]))
       /\ \A j \in 1..Len(comps[h].handlers) :
            /\ comps[h].handlers[j].button = Bound(comps[h])[j]
            /\ ~comps[h].handlers[j].registered
       /\ comps[h].log = Bound(comps[h]) \o <<"remove">>
       /\ h \notin root(comps)
       /\ \A b \in {"edit", "complete", "save", "cancel"} : ~Clickable(comps[h], b)

\* a component destroyed while it was Editing, with its four bindings
C9_Witness ==
  \E h \in DOMAIN comps :
    /\ Destroyed(comps[h]) /\ Editing(comps[h])
    /\ Len(comps[h].handlers) = 4

\* C10: the registry holds at most one entry per task id, and no two entries
\* reference the same entity.
C10_OneEntryPerTask ==
  \A i, j \in 1..Len(tasks) :
    i # j => /\ models[tasks[i].model].id # models[tasks[j].model].id
             /\ tasks[i].model # tasks[j].model

\* the registry has an entry for component h
Registered(h) == \E i \in 1..Len(tasks) : tasks[i].component = h

\* C11: a component is destroyed exactly when its entry is out of the
\* registry.  A component whose entry is in the registry is rendered and
\* every binding it created is registered; a component whose entry was
\* removed is out of the document with every binding unregistered.
C11_DestroyedIffRemoved ==
  \A h \in DOMAIN comps :
    /\ Destroyed(comps[h]) <=> ~Registered(h)
    /\ Registered(h)
       => /\ h \in root(comps)
          /\ \A j \in 1..Len(comps[h].handlers) : comps[h].handlers[j].registered
    /\ ~Registered(h)
       => /\ h \notin root(comps)
          /\ \A j \in 1..Len(comps[h].handlers) : ~comps[h].handlers[j].registered

\* a DELETE resolved: its component is destroyed and its entry is gone
C11_Witness ==
  /\ \E k \in Calls : calls[k].method = "DELETE" /\ calls[k].phase = "resolved"
  /\ \E h \in DOMAIN comps : Destroyed(comps[h]) /\ ~Registered(h)

\* C12: when the PUT of a save() settles, resolved or rejected, on a
\* component that was destroyed while the PUT was in flight, save() is
\* fulfilled (nothing is raised), the registry and the rendered view are as
\* they were, no remote call is issued, and the component stays destroyed:
\* out of the document, with its bindings unregistered and no button
\* clickable.
C12_LateSettlementIsHarmless ==
  [][ \A k \in Calls :
        ( /\ Settles(k, "save", "resolved") \/ Settles(k, "save", "rejected")
          /\ Destroyed(comps[calls[k].cont.comp]) )
        => LET c == calls[k].cont.comp
           IN /\ calls'[k].outer = "fulfilled"
              /\ tasks' = tasks
              /\ root(comps') = root(comps)
              /\ Len(calls') = Len(calls)
              /\ Destroyed(comps'[c])
              /\ comps'[c].handlers = comps[c].handlers
              /\ comps'[c].log = comps[c].log
              /\ \A b \in {"edit", "complete", "save", "cancel"} : ~Clickable(comps'[c], b)
              /\ \A h \in DOMAIN comps : h # c => comps'[h] = comps[h]
    ]_vars

\* a save() fulfilled after its component was destroyed: _hideEditField ran
\* on the removed element, and the entity took the description of the PUT
C12_Witness ==
  \E k \in Calls :
    /\ calls[k].method = "PUT" /\ calls[k].phase = "resolved"
    /\ calls[k].outer = "fulfilled"
    /\ \E h \in DOMAIN comps :
         /\ Destroyed(comps[h]) /\ comps[h].late /\ comps[h].hiddenBy = "save"
         /\ ~Registered(h)
         /\ models[comps[h].model].description # StoredDesc

\* the subscriptions of the emitter to event e, in the order of the list
SubscribedTo(e) == SelectSeq(emitter.obj.subscribers, LAMBDA s : s.event = e)

\* C13: emit(e, payload) invokes the callbacks subscribed to e when it is
\* called, each once, with payload, in the order of their subscription, and
\* no callback subscribed to another event.
C13_EmitInvokesSubscribed ==
  emitter.last.op = "emit"
  => emitter.last.invoked =
       [j \in 1..Len(SubscribedTo(emitter.last.event)) |->
          [callback |-> SubscribedTo(emitter.last.event)[j].callback,
           data |-> emitter.last.data]]

\* C14: handle.unsubscribe(), called with no argument on the handle that
\* on() returned for a subscription, removes that subscription and leaves
\* the others in place, in their order.
C14_HandleRemovesItsSubscription ==
  [][ \A j \in 1..Len(emitter.handles) :
        EmitterUnsubscribe(j)
        => emitter'.obj.subscribers =
             SelectSeq(emitter.obj.subscribers, LAMBDA s : s.id # j)
    ]_vars

\* the ids of the subscriptions in the list
SubscribedIds == { emitter.obj.subscribers[j].id : j \in 1..Len(emitter.obj.subscribers) }

\* C15: _unsubscribe with an id that is not in the list (an id never
\* assigned, an id already unsubscribed, or no id at all) raises nothing and
\* leaves the list as it was, in content and in order.
C15_UnknownIdIsNoOp ==
  [][ /\ \A j \in 1..Len(emitter.handles) : \A anId \in 1..(MaxSubs + 1) :
           ( EmitterUnsubscribeId(j, anId) /\ anId \notin SubscribedIds )
           => /\ emitter'.obj = emitter.obj
              /\ ~emitter'.last.raised
      /\ \A j \in 1..Len(emitter.handles) :
           ( EmitterUnsubscribe(j) /\ NoId \notin SubscribedIds )
           => /\ emitter'.obj = emitter.obj
              /\ ~emitter'.last.raised
    ]_vars

\* an id that was assigned and then unsubscribed is unsubscribed again: two
\* subscriptions or more are in the list, and none was removed
C15_Witness ==
  /\ emitter.last.op = "unsubscribe"
  /\ emitter.last.args # <<>>
  /\ Head(emitter.last.args) < emitter.obj.seq
  /\ Head(emitter.last.args) \notin SubscribedIds
  /\ emitter.last.removed = 0
  /\ ~emitter.last.raised
  /\ Len(emitter.obj.subscribers) >= 2

\* C16: when a callback throws during emit(e, payload), every callback
\* subscribed to e is still invoked, as many times as it is subscribed.
C16_ThrowingCallbackIsIsolated ==
  ( emitter.last.op = "emit" /\ emitter.last.raised )
  => \A cb \in Callbacks :
       Cardinality({ i \in 1..Len(emitter.last.invoked) :
                       emitter.last.invoked[i].callback = cb })
       = Cardinality({ j \in 1..Len(SubscribedTo(emitter.last.event)) :
                         SubscribedTo(emitter.last.event)[j].callback = cb })

\* C17: once the response of a request is complete, whatever its status,
\* its Content-type (or none) and its body, the promise of the request is
\* resolved or rejected, by one call of resolve or reject.
C17_OneSettlementPerResponse ==
  request.readyState = "DONE"
  => /\ request.promise \in {"resolved", "rejected"}
     /\ request.settlements = 1

\* the media type of a Content-type value: what precedes its parameters
RECURSIVE mediaType(_)
mediaType(hdr) ==
  IF hdr = "" \/ SubSeq(hdr, 1, 1) = ";" THEN ""
  ELSE SubSeq(hdr, 1, 1) \o mediaType(SubSeq(hdr, 2, Len(hdr)))

\* a JSON content-type, with or without parameters such as a charset
IsJsonType(hdr) == mediaType(hdr) \in {"application/json", "text/json"}

\* C18: the classification of a complete response, read on the responses
\* that carry a Content-type and, when it is a JSON one, a well-formed body.
\* Status 200 or 201 with a JSON content-type resolves with the parsed body,
\* and with another content-type rejects with 'Not a JSON response'; any
\* other status rejects with an error that carries the status, and the
\* parsed body in `json` when the content-type is JSON (with or without
\* parameters), the raw text in `response` otherwise.
C18_Classification ==
  ( /\ request.readyState = "DONE"
    /\ request.resp.header # NullHeader
    /\ IsJsonType(request.resp.header) => request.resp.parses )
  => LET o == request.outcome
         json == IsJsonType(request.resp.header)
     IN IF IsSuccess(request.resp.status)
        THEN IF json
             THEN /\ o.kind = "resolve"
                  /\ o.value = request.resp.data
                  /\ request.promise = "resolved"
             ELSE /\ o.kind = "reject"
                  /\ o.message = "Not a JSON response"
                  /\ request.promise = "rejected"
        ELSE /\ o.kind = "reject"
             /\ o.status = request.resp.status
             /\ o.field = (IF json THEN "json" ELSE "response")
             /\ request.promise = "rejected"

\* C19: a PUT or a DELETE that the store answers with status 200 or 201
\* succeeds, whatever the body: when that answer is delivered, update() has
\* given the entity the new description, and removeTask has taken the task
\* out of the registry and of the view.
C19_SuccessStatusSuffices ==
  [][ \A k \in Calls :
        ( /\ calls[k].phase = "answered"
          /\ IsSuccess(calls[k].resp.status)
          /\ calls'[k].phase # "answered" )
        => /\ calls[k].fn = "save"
              => models'[SavedModel(k)].description = calls[k].cont.newDesc
           /\ calls[k].fn = "removeTask"
              => /\ findIndex(tasks', models', TaskId(calls[k].cont.task, models)) = 0
                 /\ \A h \in root(comps') :
                      models'[h].id # TaskId(calls[k].cont.task, models)
    ]_vars

\* the scenario has been played: after the GET of init(), a POST, a PUT and
\* a DELETE were issued, in this order and no other call, and the answer
\* of each has been delivered
ScenarioPlayed ==
  /\ [k \in 1..Len(calls) |-> calls[k].method] = <<"GET", "POST", "PUT", "DELETE">>
  /\ \A k \in Calls : calls[k].phase \notin {"sent", "answered"}

\* C20: once the scenario has been played with a store that accepts every
\* call, the registry is empty and no task is rendered, the entity has the
\* id 1 and the description 'Buy oat milk', and the two calls issued after
\* the creation, one PUT and one DELETE, were both successful.
C20_ScenarioEndState ==
  ScenarioPlayed
  => /\ tasks = <<>>
     /\ root(comps) = {}
     /\ Len(models) = 1
     /\ models[1].id = 1
     /\ models[1].description = "Buy oat milk"
     /\ \A k \in Calls : calls[k].phase = "resolved"
     /\ Count("PUT") = 1 /\ Count("DELETE") = 1
     /\ Len(calls) = Count("GET") + Count("POST") + 2

\* C21: the k-th subscription made on an emitter receives the id k, whatever
\* was unsubscribed before and whatever was subscribed on another emitter:
\* the ids in an emitter's list are pairwise distinct, every one is the rank
\* of a subscription made on that emitter, and the subscription just made
\* has the number of subscriptions made so far, so no id is given twice.
C21_SequencerIds ==
  LET subs == emitter.obj.subscribers
      made == Len(emitter.handles)
  IN /\ \A i, j \in 1..Len(subs) : i # j => subs[i].id # subs[j].id
     /\ \A j \in 1..Len(subs) : subs[j].id \in 1..made
     /\ emitter.last.op = "on"
        => /\ emitter.last.id = made
           /\ subs[Len(subs)].id = made
     /\ \A j \in 1..Len(emitter.peer.subscribers) :
          emitter.peer.subscribers[j].id = j

\* the third subscription of an emitter received the id 3 after an earlier
\* one was unsubscribed, while its peer had assigned the ids 1 and 2
C21_Witness ==
  /\ emitter.last.op = "on" /\ emitter.last.id = 3
  /\ Len(emitter.obj.subscribers) = 2
  /\ Len(emitter.peer.subscribers) = 2
  /\ emitter.peer.subscribers[2].id = 2

\* a string without the '/' it starts with
RECURSIVE NoLeadingSlash(_)
NoLeadingSlash(str) ==
  IF str # "" /\ SubSeq(str, 1, 1) = "/" THEN NoLeadingSlash(SubSeq(str, 2, Len(str)))
  ELSE str

\* a string without the '/' it ends with
RECURSIVE NoTrailingSlash(_)
NoTrailingSlash(str) ==
  IF str # "" /\ SubSeq(str, Len(str), Len(str)) = "/"
  THEN NoTrailingSlash(SubSeq(str, 1, Len(str) - 1))
  ELSE str

\* C22: mkUrl gives the same URL whatever '/' the base and the
\* path start and end with: the URL built is the one of the base and the
\* path without these delimiters, as for "/api/", "/task/1" and "api",
\* "task/1".
C22_AnyDelimiter ==
  url.built
  => url.value = mkUrl(NoLeadingSlash(NoTrailingSlash(url.baseUrl)),
                       NoLeadingSlash(NoTrailingSlash(url.path)),
                       url.queryParams)

\* how many times destroy() ran on component c: each run ends with `remove`
Destroys(c) == Len(SelectSeq(c.log, LAMBDA e : e = "remove"))

\* how many entries of registry ts reference component h
Entries(ts, h) == Cardinality({ i \in 1..Len(ts) : ts[i].component = h })

\* C23: under every interleaving of complete() clicks, 'complete selected'
\* clicks and DELETE settlements, two removeTask for one task id in flight
\* included, destroy() runs at most once on each component and each registry
\* entry is removed at most once: an entry leaves the registry only in the
\* step that resolves a DELETE of a removeTask for the id of its entity, that
\* step removes one entry and destroys its component and no other, and an
\* entry that has left never returns.  A removeTask whose DELETE resolves
\* when no entry has its id any more changes nothing and is fulfilled.
C23_RemovedAtMostOnce ==
  [][ /\ \A h \in DOMAIN comps' : Destroys(comps'[h]) <= 1
      /\ \A h \in DOMAIN comps' : Entries(tasks', h) <= 1
      /\ \A h \in DOMAIN comps :
           /\ Entries(tasks, h) = 0 => Entries(tasks', h) = 0
           /\ ( Entries(tasks', h) < Entries(tasks, h) \/ TornDown(h) )
              => \E k \in Calls :
                   /\ Settles(k, "removeTask", "resolved")
                   /\ models[comps[h].model].id = TaskId(calls[k].cont.task, models)
                   /\ Len(tasks') = Len(tasks) - 1
                   /\ Destroys(comps'[h]) = 1
                   /\ \A g \in DOMAIN comps : g # h => comps'[g] = comps[g]
      /\ \A k \in Calls :
           ( /\ Settles(k, "removeTask", "resolved")
             /\ findIndex(tasks, models, TaskId(calls[k].cont.task, models)) = 0 )
           => /\ tasks' = tasks
              /\ comps' = comps
              /\ calls'[k].outer = "fulfilled"
    ]_vars

\* two removeTask of one task were in flight, and both DELETEs resolved: the
\* store lost one row, the component of that task was destroyed once, and
\* the other entries are in the registry with their components
C23_Witness ==
  /\ Count("DELETE") = 2
  /\ \A k \in Calls : calls[k].method = "DELETE"
                       => calls[k].phase = "resolved" /\ calls[k].outer = "fulfilled"
  /\ Cardinality(DOMAIN store.rows) = Len(models) - 1
  /\ Len(tasks) = Len(models) - 1
  /\ \E h \in DOMAIN comps :
       /\ Destroys(comps[h]) = 1
       /\ \A g \in DOMAIN comps : g # h => Destroys(comps[g]) = 0 /\ Registered(g)

\* C24: every entity of the registry carries the id and the timestamp that
\* the store holds for its task, whether create() or the initial load of
\* init() put it there: it has an id, and when the store has a row of that
\* id the entity's timestamp is the time of that row and no longer the Date
\* of its construction.
C24_EntityMirrorsStore ==
  \A i \in 1..Len(tasks) :
    LET m == models[tasks[i].model]
    IN /\ m.id # NoId
       /\ m.id \in DOMAIN store.rows
          => /\ store.rows[m.id].id = m.id
             /\ m.timestamp.ms = DateParse(store.rows[m.id].timestamp).ms
             /\ m.timestamp # NewDate

\* call k is the PUT of a save() of component h that has not settled yet
SaveInFlight(k, h) ==
  /\ calls[k].fn = "save"
  /\ calls[k].phase \in {"sent", "answered"}
  /\ calls[k].cont.comp = h

\* C25: an issued update cannot be aborted.  A cancel() while the PUT of a
\* save() of the component is in flight leaves that call, and every other,
\* as it was, still to be settled; and when the PUT then resolves on the
\* cancelled component, the entity's description becomes the submitted value
\* and the label shows it.
C25_CancelDoesNotAbort ==
  [][ /\ \A h \in DOMAIN comps : \A k \in Calls :
           ( SaveInFlight(k, h) /\ Cancel(h) )
           => /\ calls' = calls
              /\ store' = store
              /\ SaveInFlight(k, h)'
      /\ \A k \in Calls :
           ( /\ Settles(k, "save", "resolved")
             /\ comps[calls[k].cont.comp].hiddenBy = "cancel" )
           => LET c == calls[k].cont.comp
              IN /\ IsSuccess(calls[k].resp.status)
                 /\ models'[SavedModel(k)].description = calls[k].cont.newDesc
                 /\ comps'[c].label = calls[k].cont.newDesc
    ]_vars

\* the user cancelled while the PUT was in flight: the component is Viewing
\* under the old label, and the store's answer, a success with a JSON body,
\* has arrived and is about to resolve the update
C25_Witness ==
  \E k \in Calls :
    /\ calls[k].fn = "save" /\ calls[k].phase = "answered"
    /\ IsSuccess(calls[k].resp.status)
    /\ handleJsonResponse(calls[k].resp).kind = "resolve"
    /\ LET c == comps[calls[k].cont.comp]
       IN /\ c.hiddenBy = "cancel" /\ Viewing(c) /\ c.attached
          /\ c.label = StoredDesc
          /\ calls[k].cont.newDesc # StoredDesc

\* the GET tasks of init() was rejected
LoadFailed == \E k \in Calls : calls[k].fn = "init" /\ calls[k].phase = "rejected"

\* C26: when the GET tasks of init() is rejected, init() catches the
\* failure: the step adds nothing to the registry (empty unless a submission
\* was registered meanwhile), creates no entity or component and issues no
\* call, and init() is fulfilled; there is never a second GET; and after the
\* failure a submission still issues its POST, whose resolution registers
\* the new task with its component.
C26_LoadFailureIsCaught ==
  [][ /\ \A k \in Calls :
           Settles(k, "init", "rejected")
           => /\ tasks' = tasks /\ comps' = comps /\ models' = models
              /\ Count("POST") = 0 => tasks' = <<>>
              /\ Len(calls') = Len(calls)
              /\ calls'[k].outer = "fulfilled"
      /\ Cardinality({ k \in 1..Len(calls') : calls'[k].method = "GET" }) = 1
      /\ \A txt \in Inputs :
           ( LoadFailed /\ ~IsBlank(txt) /\ Submit(txt) )
           => /\ Len(calls') = Len(calls) + 1
              /\ calls'[Len(calls')].method = "POST"
              /\ calls'[Len(calls')].phase = "sent"
      /\ \A k \in Calls :
           ( LoadFailed /\ Settles(k, "addTask", "resolved") )
           => LET h == calls[k].cont.model
              IN /\ tasks' = Append(tasks, [model |-> h, component |-> h])
                 /\ h \in root(comps')
                 /\ models'[h].id # NoId
    ]_vars

\* the GET was rejected and init() fulfilled, and a submitted task is the
\* one entry of the registry, rendered, and the one row of the store
C26_Witness ==
  /\ \E k \in Calls : /\ calls[k].fn = "init" /\ calls[k].phase = "rejected"
                      /\ calls[k].outer = "fulfilled"
  /\ Count("GET") = 1
  /\ store.rows # <<>>
  /\ Len(tasks) = 1
  /\ tasks[1].component \in root(comps)
  /\ \E k \in Calls : calls[k].fn = "addTask" /\ calls[k].phase = "resolved"

\* every call issued so far has settled
AllSettled == \A k \in Calls : calls[k].phase \in {"resolved", "rejected"}

\* the ids of the entities of the registry, in its order
RegistryIds == [i \in 1..Len(tasks) |-> models[tasks[i].model].id]

\* the ids of ids, ascending: the order in which init() loaded the tasks
RECURSIVE Ascending(_)
Ascending(ids) ==
  IF ids = {} THEN <<>>
  ELSE LET i == CHOOSE x \in ids : \A y \in ids : x <= y
       IN <<i>> \o Ascending(ids \ {i})

\* C27: when removeTask calls for several tasks are in flight together, in
\* whichever order their DELETEs settle, once all have settled the registry
\* holds exactly the tasks no DELETE succeeded on (the store still has them:
\* their DELETE failed or they were never removed), in the order in which
\* they were loaded, and exactly the components of the deleted tasks were
\* destroyed, each once.
C27_RegistryAfterRemovals ==
  AllSettled
  => /\ RegistryIds = Ascending(DOMAIN store.rows)
     /\ \A h \in DOMAIN comps :
          /\ Destroyed(comps[h]) <=> models[h].id \notin DOMAIN store.rows
          /\ Destroys(comps[h]) = IF models[h].id \in DOMAIN store.rows THEN 0 ELSE 1
          /\ Registered(h) <=> models[h].id \in DOMAIN store.rows

\* tasks 2 and 3 were completed together: the DELETE of one resolved and the
\* DELETE of the other was rejected; task 1, never removed, and task 3 are
\* the registry, and the component of task 2 alone was destroyed
C27_Witness ==
  /\ AllSettled
  /\ Count("DELETE") = 2
  /\ \E k \in Calls : calls[k].method = "DELETE" /\ calls[k].phase = "resolved"
  /\ \E k \in Calls : calls[k].method = "DELETE" /\ calls[k].phase = "rejected"
  /\ RegistryIds = <<1, 3>>
  /\ Destroyed(comps[2]) /\ ~Destroyed(comps[1]) /\ ~Destroyed(comps[3])

\* C28: a component leaves the Editing state only through a save() or a
\* cancel() of the current editing session: by a click on cancel, by a save
\* of a blank input, or by the settlement of an update that a save() of this
\* session issued.  The settlement of an update issued by a save() of an
\* earlier session (save in flight, cancel, edit again, the update settles)
\* leaves the component Editing.
C28_OnlyCurrentSessionLeavesEditing ==
  [][ \A h \in DOMAIN comps :
        ( Editing(comps[h]) /\ ~Editing(comps'[h]) )
        => \/ Cancel(h)
           \/ \E txt \in Inputs : IsBlank(txt) /\ Save(h, txt)
           \/ \E k \in Calls :
                /\ Settles(k, "save", "resolved") \/ Settles(k, "save", "rejected")
                /\ calls[k].cont.comp = h
                /\ ~calls[k].cont.stale
    ]_vars
====
